---- MODULE Spec2Model ----
(***************************************************************************)
(* State-machine model of src/src/fem/jax_fem.py: a first-order hexahedral *)
(* FEM engine (classes FEM, Laplace, LinearPoisson, Plasticity, Mesh).     *)
(*                                                                         *)
(* Numbers.  The source computes in float64.  The model computes in fixed  *)
(* point: every quantity is an integer multiple of a unit fixed below, an  *)
(* addition is exact, and a division or square root rounds to the grid.    *)
(*   reference coordinates      unit 1/RefScale                            *)
(*   shape values               unit 1/ValScale                            *)
(*   shape gradients, Jacobians unit 1/GradScale                           *)
(*   displacements (sol)        unit 1/35000 of the length unit            *)
(*   displacement gradients     u_grads holds sum(sol * shape_grads), the  *)
(*                              true gradient times 35000                  *)
(*   strains                    epsilon holds g + g^T, i.e. 70000 * eps    *)
(*   stresses                   unit 5/78, so that sig0 = 250 is 3900 and  *)
(*     lmbda : 2*mu = 40384.6 : 53846.2 = 9 : 12 act on the stored strain  *)
(* Arrays indexed by the program (points, cells, sol, history, tables) are *)
(* functions on 0..n-1 as in the source; small fixed-size vectors and      *)
(* Python lists are tuples.                                                *)
(***************************************************************************)
EXTENDS Integers, Sequences, FiniteSets, TLC

(* ------------------------------ arithmetic ----------------------------- *)

Abs(x) == IF x < 0 THEN -x ELSE x

\* float division, rounded to the nearest grid point (b # 0)
RDiv(a, b) ==
    IF b > 0 THEN (2 * a + b) \div (2 * b) ELSE (2 * (-a) + (-b)) \div (2 * (-b))

RECURSIVE SqrtIter(_, _)
SqrtIter(x, r) ==
    LET r2 == (r + x \div r) \div 2 IN IF r2 >= r THEN r ELSE SqrtIter(x, r2)

\* np.sqrt on the grid (x >= 0): the largest r with r*r <= x
ISqrt(x) == IF x <= 0 THEN 0 ELSE SqrtIter(x, x)

RECURSIVE SumOver(_, _, _)
\* sum of F[a] .. F[b-1], by halves
SumOver(F, a, b) ==
    IF b <= a THEN 0
    ELSE IF b = a + 1 THEN F[a]
    ELSE SumOver(F, a, (a + b) \div 2) + SumOver(F, (a + b) \div 2, b)

\* sum of F[0] .. F[n-1]
SumTo(F, n) == SumOver(F, 0, n)

Sum3(t) == t[1] + t[2] + t[3]

TupleOf(F, n) == [i \in 1..n |-> F[i - 1]] @@ <<>>

\* np.array(...): the array on 0..n-1 with the entries of F, each computed once
array(F, n) == [i \in 0..(n - 1) |-> F[i]] @@ <<>>

\* a tuple of vec entries built eagerly (vec is 1 or 3)
MkVec(vec, F(_)) == IF vec = 1 THEN <<F(1)>> ELSE <<F(1), F(2), F(3)>>

Mk3(F(_)) == <<F(1), F(2), F(3)>>

\* a local variable of the source that holds an array: v is computed first,
\* once, and named in F  (small locals are LET definitions)
With(v, F(_)) == CHOOSE r \in {F(x) : x \in {v}} : TRUE

ZeroVec(vec) == MkVec(vec, LAMBDA v : 0)

ZeroMat(vec) == MkVec(vec, LAMBDA v : <<0, 0, 0>>)

\* np.argwhere(flags).reshape(-1) for flags on 0..n-1: the indices, ascending
RECURSIVE ArgWhere(_, _)
ArgWhere(flags, n) ==
    IF n = 0 THEN <<>>
    ELSE IF flags[n - 1] THEN Append(ArgWhere(flags, n - 1), n - 1)
         ELSE ArgWhere(flags, n - 1)

\* np.roll(items, d) of a 3-vector: entry i moves to position i + d
Roll(items, d) == Mk3(LAMBDA i : items[((i - 1 - d) % 3) + 1])

(* --------------------------- FEM.__init__ sizes ------------------------ *)

dim == 3
num_quads == 8
num_nodes == 8
num_faces == 6
num_face_quads == 4

(* --------------------------- reference element ------------------------- *)

\* grid of the reference coordinates: x = X / RefScale
RefScale == 5
\* np.sqrt(1./3.) on that grid
RootThird == 3
\* 8 * RefScale^3 / 8: shape values are V / ValScale
ValScale == 125
\* 8 * RefScale^2 / 2: shape gradients are G / GradScale
GradScale == 100

\* the sign pattern of f1..f8: f = coef/8 * (x0 + a0)(x1 + a1)(x2 + a2)
ShapeCoef == <<-1, 1, -1, 1, 1, -1, 1, -1>>
ShapeOff == << <<-1, -1, -1>>, <<1, -1, -1>>, <<1, 1, -1>>, <<-1, 1, -1>>,
               <<-1, -1, 1>>, <<1, -1, 1>>, <<1, 1, 1>>, <<-1, 1, 1>> >>

\* f_{n+1}(x) for node n in 0..7 at the reference point X (grid RefScale)
get_shape_val_functions(n, X) ==
    (ShapeCoef[n + 1] * (X[1] + ShapeOff[n + 1][1] * RefScale)
                      * (X[2] + ShapeOff[n + 1][2] * RefScale)
                      * (X[3] + ShapeOff[n + 1][3] * RefScale)) \div 8

\* jax.grad(f_{n+1})(x): the three partial derivatives (grid GradScale)
get_shape_grad_functions(n, X) ==
    LET t(k) == X[k] + ShapeOff[n + 1][k] * RefScale
        c == ShapeCoef[n + 1]
    IN  << (c * t(2) * t(3)) \div 2, (c * t(1) * t(3)) \div 2, (c * t(1) * t(2)) \div 2 >>

\* (2*(k % 2) - 1) * np.sqrt(1./3.)
QuadCoord(k) == (2 * (k % 2) - 1) * RootThird

\* quad point i*4 + j*2 + k is [q(k), q(j), q(i)]
get_quad_points ==
    [q \in 0..(num_quads - 1) |->
        << QuadCoord(q % 2), QuadCoord((q \div 2) % 2), QuadCoord(q \div 4) >>]

face_extremes == <<-1, 1>>

\* face 2*d + e is the face  x_d = face_extremes[e];  its 4 quadrature points
face_quad_points ==
    [f \in 0..(num_faces - 1) |->
        [p \in 0..(num_face_quads - 1) |->
            Roll(<< face_extremes[(f % 2) + 1] * RefScale,
                    QuadCoord(p % 2), QuadCoord(p \div 2) >>, f \div 2)]]

face_normals ==
    [f \in 0..(num_faces - 1) |-> Roll(<< face_extremes[(f % 2) + 1], 0, 0 >>, f \div 2)]

get_shape_vals ==
    array([q \in 0..(num_quads - 1) |->
        array([n \in 0..(num_nodes - 1) |-> get_shape_val_functions(n, get_quad_points[q])],
              num_nodes)], num_quads)

shape_grads_reference ==
    array([q \in 0..(num_quads - 1) |->
        array([n \in 0..(num_nodes - 1) |-> get_shape_grad_functions(n, get_quad_points[q])],
              num_nodes)], num_quads)

get_face_shape_vals ==
    array([f \in 0..(num_faces - 1) |->
        array([p \in 0..(num_face_quads - 1) |->
            array([n \in 0..(num_nodes - 1) |->
                      get_shape_val_functions(n, face_quad_points[f][p])], num_nodes)],
              num_face_quads)], num_faces)

face_shape_grads_reference ==
    array([f \in 0..(num_faces - 1) |->
        array([p \in 0..(num_face_quads - 1) |->
            array([n \in 0..(num_nodes - 1) |->
                      get_shape_grad_functions(n, face_quad_points[f][p])], num_nodes)],
              num_face_quads)], num_faces)

\* the hard-coded reference corner nodes of get_face_inds
node_points == [n \in 0..(num_nodes - 1) |-> ShapeOff[n + 1]]

\* the face table with the two loops exchanged: face 3*e + d
get_face_inds_side_major ==
    [f \in 0..(num_faces - 1) |->
        ArgWhere([n \in 0..(num_nodes - 1) |->
                     node_points[n][(f % 3) + 1] = face_extremes[(f \div 3) + 1]],
                 num_nodes)]

\* face 2*d + e: the nodes whose coordinate d equals face_extremes[e]
get_face_inds ==
    [f \in 0..(num_faces - 1) |->
        ArgWhere([n \in 0..(num_nodes - 1) |->
                     node_points[n][(f \div 2) + 1] = face_extremes[(f % 2) + 1]],
                 num_nodes)]

(* -------------------------------- meshes ------------------------------- *)

\* class Mesh: points (num_total_nodes, 3) and cells (num_cells, 8).  The
\* meshes a driver passes in; generate_mesh is an external collaborator.
\* One cube [0,2]^3.
MeshCube ==
    [points |-> [n \in 0..7 |-> Mk3(LAMBDA k : ShapeOff[n + 1][k] + 1)],
     cells  |-> [c \in 0..0 |-> [n \in 0..7 |-> n]]]

\* The cube [0,2]^3 and the brick [2,6]x[0,2]^2 sharing the face x = 2.
MeshTwo ==
    [points |-> [n \in 0..11 |->
                    IF n <= 7 THEN Mk3(LAMBDA k : ShapeOff[n + 1][k] + 1)
                    ELSE << 6, 2 * ((n - 8) % 2), 2 * ((n - 8) \div 2) >>],
     cells  |-> [c \in 0..1 |->
                    IF c = 0 THEN [n \in 0..7 |-> n]
                    ELSE (0 :> 1 @@ 1 :> 8 @@ 2 :> 9 @@ 3 :> 2 @@
                          4 :> 5 @@ 5 :> 10 @@ 6 :> 11 @@ 7 :> 6)]]

Meshes == {MeshCube, MeshTwo}

\* The cube [0,2]^3 with the bottom and the top face of its cell exchanged in the
\* connectivity: the element is inverted (negative Jacobian determinant).
MeshMirrored ==
    [points |-> [n \in 0..7 |-> Mk3(LAMBDA k : ShapeOff[n + 1][k] + 1)],
     cells  |-> [c \in 0..0 |-> [n \in 0..7 |-> (n + 4) % 8]]]

Len0(a) == Cardinality(DOMAIN a)

(* -------------------------- geometric mapping -------------------------- *)

Det3(M) ==
      M[1][1] * (M[2][2] * M[3][3] - M[2][3] * M[3][2])
    - M[1][2] * (M[2][1] * M[3][3] - M[2][3] * M[3][1])
    + M[1][3] * (M[2][1] * M[3][2] - M[2][2] * M[3][1])

\* the adjugate: Inv(M) = Adj3(M) / Det3(M)
Adj3(M) ==
    << << M[2][2] * M[3][3] - M[2][3] * M[3][2],
          M[1][3] * M[3][2] - M[1][2] * M[3][3],
          M[1][2] * M[2][3] - M[1][3] * M[2][2] >>,
       << M[2][3] * M[3][1] - M[2][1] * M[3][3],
          M[1][1] * M[3][3] - M[1][3] * M[3][1],
          M[1][3] * M[2][1] - M[1][1] * M[2][3] >>,
       << M[2][1] * M[3][2] - M[2][2] * M[3][1],
          M[1][2] * M[3][1] - M[1][1] * M[3][2],
          M[1][1] * M[2][2] - M[1][2] * M[2][1] >> >>

\* np.linalg.inv of a Jacobian on the grid GradScale
Inv3(M) ==
    LET a == Adj3(M)
        d == Det3(M)
    IN  Mk3(LAMBDA i : Mk3(LAMBDA j : RDiv(a[i][j] * GradScale * GradScale, d)))

\* np.take(self.points, self.cells, axis=0)[c][n]
physical_coos(self, c, n) == self.points[self.cells[c][n]]

\* sum over the 8 nodes of  x_n (x) grad N_n : jacobian_dx_deta
Jacobian(self, c, grads) ==
    Mk3(LAMBDA i : Mk3(LAMBDA j :
        SumTo([n \in 0..(num_nodes - 1) |-> physical_coos(self, c, n)[i] * grads[n][j]],
              num_nodes)))

\* row vector @ matrix on the grid GradScale
RowMat(g, Jinv) ==
    Mk3(LAMBDA d : RDiv(g[1] * Jinv[1][d] + g[2] * Jinv[2][d] + g[3] * Jinv[3][d], GradScale))

\* FEM.get_shape_grads: [1] = shape_grads_physical, [2] = JxW
get_shape_grads(self) ==
    LET nc == Len0(self.cells)
        J(c, q) == Jacobian(self, c, shape_grads_reference[q])
    IN  << array([c \in 0..(nc - 1) |-> array([q \in 0..(num_quads - 1) |->
              With(Inv3(J(c, q)), LAMBDA Jinv :
                  array([n \in 0..(num_nodes - 1) |->
                            RowMat(shape_grads_reference[q][n], Jinv)], num_nodes))],
              num_quads)], nc),
           array([c \in 0..(nc - 1) |-> array([q \in 0..(num_quads - 1) |->
              RDiv(Det3(J(c, q)), GradScale * GradScale * GradScale) * 1], num_quads)], nc) >>

\* FEM.get_face_shape_grads for boundary_inds, a list of <<cell, face>>:
\* [1] = face_shape_grads_physical, [2] = nanson_scale, both one row per face
get_face_shape_grads(self, boundary_inds) ==
    LET J(k, p) == Jacobian(self, boundary_inds[k][1],
                            face_shape_grads_reference[boundary_inds[k][2]][p])
    IN  << [k \in 1..Len(boundary_inds) |-> [p \in 0..(num_face_quads - 1) |->
              With(Inv3(J(k, p)), LAMBDA Jinv :
                  [n \in 0..(num_nodes - 1) |->
                      RowMat(face_shape_grads_reference[boundary_inds[k][2]][p][n], Jinv)])]],
           [k \in 1..Len(boundary_inds) |-> [p \in 0..(num_face_quads - 1) |->
              With(J(k, p), LAMBDA Jm :
              With(Inv3(Jm), LAMBDA Jinv :
                  LET nrm == face_normals[boundary_inds[k][2]]
                      v == Mk3(LAMBDA d : nrm[1] * Jinv[1][d] + nrm[2] * Jinv[2][d]
                                                              + nrm[3] * Jinv[3][d])
                      norm == ISqrt(v[1] * v[1] + v[2] * v[2] + v[3] * v[3])
                  IN  RDiv(norm * Det3(Jm),
                           GradScale * GradScale * GradScale * GradScale) * 1))]] >>

\* FEM.get_physical_quad_points: coordinates on the grid ValScale
get_physical_quad_points(self) ==
    array([c \in 0..(Len0(self.cells) - 1) |-> array([q \in 0..(num_quads - 1) |->
        Mk3(LAMBDA d :
            SumTo([n \in 0..(num_nodes - 1) |->
                      self.shape_vals[q][n] * physical_coos(self, c, n)[d]], num_nodes))],
        num_quads)], Len0(self.cells))

\* FEM.get_physical_surface_quad_points: one row per selected face
get_physical_surface_quad_points(self, boundary_inds) ==
    [k \in 1..Len(boundary_inds) |-> [p \in 0..(num_face_quads - 1) |->
        Mk3(LAMBDA d :
            SumTo([n \in 0..(num_nodes - 1) |->
                      self.face_shape_vals[boundary_inds[k][2]][p][n]
                          * physical_coos(self, boundary_inds[k][1], n)[d]], num_nodes))]]

(* ------------------- callables supplied by the driver ------------------ *)

\* location functions: point -> bool  (e.g. lambda x: np.isclose(x[0], 0.))
LocationFns == {"x_eq_0", "x_eq_2", "x_eq_6", "x0_plus_x1_le_2", "origin", "nowhere"}

location_fn(tag, X) ==
    CASE tag = "x_eq_0" -> X[1] = 0
      [] tag = "x_eq_2" -> X[1] = 2
      [] tag = "x_eq_6" -> X[1] = 6
      [] tag = "x0_plus_x1_le_2" -> X[1] + X[2] <= 2
      [] tag = "origin" -> X[1] = 0 /\ X[2] = 0 /\ X[3] = 0
      [] tag = "nowhere" -> FALSE

\* a location function whose body raises when it is applied
\* (def loc(x): raise ValueError), so that a list holding it cannot be resolved
location_fn_raises(tag) == tag = "raises"

\* Dirichlet value functions: point -> scalar
value_fn(tag, X) ==
    CASE tag = "zero" -> 0
      [] tag = "one" -> 1
      [] tag = "x1" -> X[2]

\* traction and body-force functions: point (grid ValScale) -> (vec,)
vector_fn(tag, X, vec) ==
    CASE tag = "pull" -> MkVec(vec, LAMBDA v : IF v = 1 THEN 40 ELSE 0)
      [] tag = "x0" -> MkVec(vec, LAMBDA v : X[1] \div ValScale)
      [] tag = "weight" -> MkVec(vec, LAMBDA v : IF v = vec THEN -8 ELSE 0)

(* --------------------------- calls and returns ------------------------- *)

Return(v) == [exc |-> "None", val |-> v]
Raise(e) == [exc |-> e, val |-> <<>>]

(* --------------------------- boundary resolver ------------------------- *)

num_total_nodes(self) == Len0(self.points)
num_cells(self) == Len0(self.cells)

\* a resolver that drops from an entry the nodes an earlier entry already claimed
\* for the same component
Dirichlet_boundary_conditions_dedup(self, dirichlet_bc_info) ==
    LET location_fns == dirichlet_bc_info[1]
        vecs == dirichlet_bc_info[2]
        value_fns == dirichlet_bc_info[3]
        fresh(i, n) == /\ location_fn(location_fns[i], self.points[n])
                       /\ ~\E j \in 1..(i - 1) :
                              vecs[j] = vecs[i] /\ location_fn(location_fns[j], self.points[n])
    IN  IF ~(Len(location_fns) = Len(value_fns) /\ Len(value_fns) = Len(vecs))
        THEN Raise("AssertionError")
        ELSE With([i \in 1..Len(location_fns) |->
                      ArgWhere([n \in 0..(num_total_nodes(self) - 1) |-> fresh(i, n)],
                               num_total_nodes(self))], LAMBDA node_inds :
                 Return(<< node_inds,
                           [i \in 1..Len(location_fns) |->
                               [k \in 1..Len(node_inds[i]) |-> 1 * vecs[i]]],
                           [i \in 1..Len(location_fns) |->
                               [k \in 1..Len(node_inds[i]) |->
                                   value_fn(value_fns[i], self.points[node_inds[i][k]])]] >>))

\* a resolver that resolves the entries first and compares the lengths of the
\* three lists afterwards
Dirichlet_boundary_conditions_late(self, dirichlet_bc_info) ==
    LET location_fns == dirichlet_bc_info[1]
        vecs == dirichlet_bc_info[2]
        value_fns == dirichlet_bc_info[3]
    IN  IF \E i \in 1..Len(location_fns) : location_fn_raises(location_fns[i])
        THEN Raise("ValueError")
        ELSE IF ~(Len(location_fns) = Len(value_fns) /\ Len(value_fns) = Len(vecs))
        THEN Raise("AssertionError")
        ELSE With([i \in 1..Len(location_fns) |->
                      ArgWhere([n \in 0..(num_total_nodes(self) - 1) |->
                                   location_fn(location_fns[i], self.points[n])],
                               num_total_nodes(self))], LAMBDA node_inds :
                 Return(<< node_inds,
                           [i \in 1..Len(location_fns) |->
                               [k \in 1..Len(node_inds[i]) |-> 1 * vecs[i]]],
                           [i \in 1..Len(location_fns) |->
                               [k \in 1..Len(node_inds[i]) |->
                                   value_fn(value_fns[i], self.points[node_inds[i][k]])]] >>))

\* FEM.Dirichlet_boundary_conditions; dirichlet_bc_info = <<location_fns, vecs, value_fns>>
Dirichlet_boundary_conditions(self, dirichlet_bc_info) ==
    LET location_fns == dirichlet_bc_info[1]
        vecs == dirichlet_bc_info[2]
        value_fns == dirichlet_bc_info[3]
    IN  IF ~(Len(location_fns) = Len(value_fns) /\ Len(value_fns) = Len(vecs))
        THEN Raise("AssertionError")
        ELSE IF \E i \in 1..Len(location_fns) : location_fn_raises(location_fns[i])
        THEN Raise("ValueError")
        ELSE With([i \in 1..Len(location_fns) |->
                      ArgWhere([n \in 0..(num_total_nodes(self) - 1) |->
                                   location_fn(location_fns[i], self.points[n])],
                               num_total_nodes(self))], LAMBDA node_inds :
                 Return(<< node_inds,
                           [i \in 1..Len(location_fns) |->
                               [k \in 1..Len(node_inds[i]) |-> 1 * vecs[i]]],
                           [i \in 1..Len(location_fns) |->
                               [k \in 1..Len(node_inds[i]) |->
                                   value_fn(value_fns[i], self.points[node_inds[i][k]])]] >>))

\* np.any in the place of np.all
on_boundary_any(self, tag, c, f) ==
    \E k \in 1..num_face_quads :
        location_fn(tag, physical_coos(self, c, get_face_inds[f][k]))

\* np.all(boundary_flag) over the four corner nodes of face f of cell c
on_boundary(self, tag, c, f) ==
    \A k \in 1..num_face_quads :
        location_fn(tag, physical_coos(self, c, get_face_inds[f][k]))

\* np.argwhere of a (num_cells, num_faces) flag array: the rows <<c, f>>, row-major
ArgWhere2(flags, nc) ==
    LET flat == ArgWhere([i \in 0..(nc * num_faces - 1) |->
                             flags[i \div num_faces][i % num_faces]], nc * num_faces)
    IN  [k \in 1..Len(flat) |-> << flat[k] \div num_faces, flat[k] % num_faces >>]

\* np.argwhere(boundary_flags, size=1, fill_value=0): a predicate that selects no
\* face is given the padding row (0, 0)
Neuman_boundary_conditions_inds_padded(self, location_fns) ==
    [i \in 1..Len(location_fns) |->
        With(ArgWhere2([c \in 0..(num_cells(self) - 1) |-> [f \in 0..(num_faces - 1) |->
                           on_boundary(self, location_fns[i], c, f)]], num_cells(self)),
             LAMBDA boundary_inds :
                 IF Len(boundary_inds) = 0 THEN << <<0, 0>> >> ELSE boundary_inds)]

\* FEM.Neuman_boundary_conditions_inds
Neuman_boundary_conditions_inds(self, location_fns) ==
    [i \in 1..Len(location_fns) |->
        ArgWhere2([c \in 0..(num_cells(self) - 1) |-> [f \in 0..(num_faces - 1) |->
                      on_boundary(self, location_fns[i], c, f)]], num_cells(self))]

\* FEM.Neuman_boundary_conditions_vals
Neuman_boundary_conditions_vals(self, value_fns, boundary_inds_list) ==
    [i \in 1..Len(value_fns) |->
        LET subset_quad_points == get_physical_surface_quad_points(self, boundary_inds_list[i])
        IN  [k \in 1..Len(boundary_inds_list[i]) |-> [p \in 0..(num_face_quads - 1) |->
                vector_fn(value_fns[i], subset_quad_points[k][p], self.vec)]]]

(* ------------------------------- assembler ----------------------------- *)

VecAdd(a, b, vec) == MkVec(vec, LAMBDA v : a[v] + b[v])

RECURSIVE set_rows(_, _, _, _, _)
\* rows idx[a..b-1] of x are set to vals[a..b-1], one after another
set_rows(x, idx, vals, a, b) ==
    IF b <= a THEN x
    ELSE IF b = a + 1 THEN [x EXCEPT ![idx[a]] = vals[a]]
    ELSE With(set_rows(x, idx, vals, a, (a + b) \div 2), LAMBDA first :
             set_rows(first, idx, vals, (a + b) \div 2, b))

\* x.at[idx].set(vals): a row named twice keeps the last of its values only
at_set(x, idx, vals, L, vec) == set_rows(x, idx, vals, 0, L)

RECURSIVE add_rows(_, _, _, _, _, _)
\* rows idx[a..b-1] of x receive vals[a..b-1], one after another
add_rows(x, idx, vals, a, b, vec) ==
    IF b <= a THEN x
    ELSE IF b = a + 1 THEN [x EXCEPT ![idx[a]] = VecAdd(@, vals[a], vec)]
    ELSE With(add_rows(x, idx, vals, a, (a + b) \div 2, vec), LAMBDA first :
             add_rows(first, idx, vals, (a + b) \div 2, b, vec))

\* x.at[idx].add(vals): rows idx[0..L-1] of x receive vals[0..L-1], one after another
at_add(x, idx, vals, L, vec) == add_rows(x, idx, vals, 0, L, vec)

zeros(n, vec) == [i \in 0..(n - 1) |-> ZeroVec(vec)]

\* self.cells.reshape(-1) for a cell table on 0..nc-1
cells_flat(cells, nc) == [i \in 0..(nc * num_nodes - 1) |-> cells[i \div num_nodes][i % num_nodes]]

\* the rhs_vals array of compute_body_force: (num_cells*num_nodes, vec)
rhs_vals_of(self, source_info) ==
    LET nc == num_cells(self)
        physical_quad_points == get_physical_quad_points(self)
    IN  With(array([c \in 0..(nc - 1) |-> array([q \in 0..(num_quads - 1) |->
                       vector_fn(source_info, physical_quad_points[c][q], self.vec)],
                       num_quads)], nc), LAMBDA body_force :
            array([i \in 0..(nc * num_nodes - 1) |->
                      MkVec(self.vec, LAMBDA v :
                          SumTo([q \in 0..(num_quads - 1) |->
                                    self.shape_vals[q][i % num_nodes]
                                        * body_force[i \div num_nodes][q][v]
                                        * self.JxW[i \div num_nodes][q]], num_quads))],
                  nc * num_nodes))

\* Laplace.compute_body_force; source_info is "None" or a body-force function
compute_body_force(self, source_info) ==
    LET rhs == zeros(num_total_nodes(self), self.vec)
        nc == num_cells(self)
    IN  IF source_info # "None"
        THEN With(rhs_vals_of(self, source_info), LAMBDA rhs_vals :
                 at_add(rhs, cells_flat(self.cells, nc), rhs_vals, nc * num_nodes, self.vec))
        ELSE rhs

\* np.take(self.cells, boundary_inds[:, 0], axis=0).reshape(-1)
subset_cells_of(self, boundary_inds) ==
    [k \in 0..(Len(boundary_inds) * num_nodes - 1) |->
        self.cells[boundary_inds[(k \div num_nodes) + 1][1]][k % num_nodes]]

\* the int_vals array of compute_Neumann_integral: (num_selected_faces*num_nodes, vec)
int_vals_of(self, boundary_inds, traction, nanson_scale) ==
    [k \in 0..(Len(boundary_inds) * num_nodes - 1) |->
        MkVec(self.vec, LAMBDA v :
            SumTo([p \in 0..(num_face_quads - 1) |->
                      self.face_shape_vals[boundary_inds[(k \div num_nodes) + 1][2]][p][k % num_nodes]
                          * traction[(k \div num_nodes) + 1][p][v]
                          * nanson_scale[(k \div num_nodes) + 1][p]],
                  num_face_quads))]

RECURSIVE NeumannLoop(_, _, _, _, _)
\* the loop  for i, boundary_inds in enumerate(boundary_inds_list)  up to entry i
NeumannLoop(self, integral, boundary_inds_list, traction_list, i) ==
    IF i = 0 THEN integral
    ELSE With(NeumannLoop(self, integral, boundary_inds_list, traction_list, i - 1),
              LAMBDA before :
         With(get_face_shape_grads(self, boundary_inds_list[i])[2], LAMBDA nanson_scale :
         With(array(int_vals_of(self, boundary_inds_list[i], traction_list[i], nanson_scale),
                    Len(boundary_inds_list[i]) * num_nodes), LAMBDA int_vals :
             at_add(before, subset_cells_of(self, boundary_inds_list[i]), int_vals,
                    Len(boundary_inds_list[i]) * num_nodes, self.vec))))

\* Laplace.compute_Neumann_integral; neumann_bc_info is "None" or <<location_fns, value_fns>>
compute_Neumann_integral(self, neumann_bc_info) ==
    LET integral == zeros(num_total_nodes(self), self.vec)
    IN  IF neumann_bc_info # "None"
        THEN With(Neuman_boundary_conditions_inds(self, neumann_bc_info[1]),
                  LAMBDA boundary_inds_list :
                 NeumannLoop(self, integral, boundary_inds_list,
                             Neuman_boundary_conditions_vals(self, neumann_bc_info[2],
                                                             boundary_inds_list),
                             Len(boundary_inds_list)))
        ELSE integral

(* ------------------------- plasticity material law --------------------- *)

\* EPS = 1e-10 is below the grid; it is kept as the smallest positive number
EPS == 1
\* sig0 = 250. in stress units
sig0 == 3900
\* lmbda = E*nu/((1+nu)*(1-2*nu)) and mu = E/(2.*(1. + nu)) for E = 70e3, nu = 0.3,
\* in stress units per unit of stored strain
lmbda == 9
mu == 6

Trace(M) == M[1][1] + M[2][2] + M[3][3]
Eye(i, j) == IF i = j THEN 1 ELSE 0
MatSub(A, B) == Mk3(LAMBDA i : Mk3(LAMBDA j : A[i][j] - B[i][j]))
MatAdd(A, B) == Mk3(LAMBDA i : Mk3(LAMBDA j : A[i][j] + B[i][j]))
SumSq(A) == SumTo([k \in 0..8 |-> A[(k \div 3) + 1][(k % 3) + 1] * A[(k \div 3) + 1][(k % 3) + 1]], 9)

safe_sqrt(x) == LET safe_x == IF x > 0 THEN x ELSE EPS IN ISqrt(safe_x)

\* epsilon = 0.5*(u_grad + u_grad.T), stored doubled
strain(u_grad) == Mk3(LAMBDA i : Mk3(LAMBDA j : u_grad[i][j] + u_grad[j][i]))

\* sigma = lmbda*np.trace(epsilon)*np.eye(dim) + 2*mu*epsilon
stress(epsilon) ==
    LET tr == Trace(epsilon)
    IN  Mk3(LAMBDA i : Mk3(LAMBDA j : lmbda * tr * Eye(i, j) + 2 * mu * epsilon[i][j]))

\* the intermediate values of stress_return_map
sigma_trial_of(u_grad, sigma_old, epsilon_old) ==
    LET epsilon_crt == strain(u_grad)
        epsilon_inc == MatSub(epsilon_crt, epsilon_old)
    IN  MatAdd(stress(epsilon_inc), sigma_old)

s_dev_of(sigma_trial) ==
    LET m == RDiv(Trace(sigma_trial), dim)
    IN  Mk3(LAMBDA i : Mk3(LAMBDA j : sigma_trial[i][j] - m * Eye(i, j)))

f_yield_of(sigma_trial) == safe_sqrt(RDiv(3 * SumSq(s_dev_of(sigma_trial)), 2)) - sig0

\* a return map without the np.where: the correction is applied for every sign of f_yield
stress_return_map_always(u_grad, sigma_old, epsilon_old) ==
    With(sigma_trial_of(u_grad, sigma_old, epsilon_old), LAMBDA sigma_trial :
    With(s_dev_of(sigma_trial), LAMBDA s_dev :
    With(safe_sqrt(RDiv(3 * SumSq(s_dev), 2)), LAMBDA s_norm :
        LET f_yield == s_norm - sig0
        IN  Mk3(LAMBDA i : Mk3(LAMBDA j :
                sigma_trial[i][j] - RDiv(f_yield * s_dev[i][j], s_norm + EPS))))))

\* Plasticity.stress_strain_fns.stress_return_map
stress_return_map(u_grad, sigma_old, epsilon_old) ==
    With(sigma_trial_of(u_grad, sigma_old, epsilon_old), LAMBDA sigma_trial :
    With(s_dev_of(sigma_trial), LAMBDA s_dev :
    With(safe_sqrt(RDiv(3 * SumSq(s_dev), 2)), LAMBDA s_norm :
        LET f_yield == s_norm - sig0
            f_yield_plus == IF f_yield > 0 THEN f_yield ELSE 0
        IN  Mk3(LAMBDA i : Mk3(LAMBDA j :
                sigma_trial[i][j] - RDiv(f_yield_plus * s_dev[i][j], s_norm + EPS))))))

(* ------------------------------ physics hook --------------------------- *)

\* Plasticity.compute_physics: u_grads is (num_cells, num_quads, vec, dim)
Plasticity_compute_physics(self, sol, u_grads) ==
    array([c \in 0..(num_cells(self) - 1) |-> array([q \in 0..(num_quads - 1) |->
        stress_return_map(u_grads[c][q], self.sigmas_old[c * num_quads + q],
                          self.epsilons_old[c * num_quads + q])], num_quads)],
          num_cells(self))

\* a default physics that is affine, not the identity: f(u_grad) = u_grad + 1
compute_physics_affine(self, sol, u_grads) ==
    IF self.name = "Plasticity" THEN Plasticity_compute_physics(self, sol, u_grads)
    ELSE array([c \in 0..(num_cells(self) - 1) |-> array([q \in 0..(num_quads - 1) |->
             MkVec(self.vec, LAMBDA v : Mk3(LAMBDA d : u_grads[c][q][v][d] + 1))],
             num_quads)], num_cells(self))

\* LinearElasticity.compute_physics: sigma = stress(u_grad) at every quadrature point
LinearElasticity_compute_physics(self, sol, u_grads) ==
    array([c \in 0..(num_cells(self) - 1) |-> array([q \in 0..(num_quads - 1) |->
        stress(strain(u_grads[c][q]))], num_quads)], num_cells(self))

\* Laplace.compute_physics, overridden by the child classes.  The override of
\* HyperElasticity differentiates its energy psi with jax.grad; it has no arm here
\* and no action evaluates it.
compute_physics(self, sol, u_grads) ==
    CASE self.name = "Plasticity" -> Plasticity_compute_physics(self, sol, u_grads)
      [] self.name = "LinearElasticity" -> LinearElasticity_compute_physics(self, sol, u_grads)
      [] self.name = "LinearPoisson" -> u_grads

\* the first two statements of compute_residual and of update_stress_strain
u_grads_of(self, sol) ==
    array([c \in 0..(num_cells(self) - 1) |-> array([q \in 0..(num_quads - 1) |->
        MkVec(self.vec, LAMBDA v : Mk3(LAMBDA d :
            SumTo([n \in 0..(num_nodes - 1) |->
                      sol[self.cells[c][n]][v] * self.shape_grads[c][q][n][d]], num_nodes)))],
        num_quads)], num_cells(self))

\* the weak_form array of compute_residual: (num_cells*num_nodes, vec)
weak_form_of(self, sol) ==
    LET nc == num_cells(self)
    IN  With(compute_physics(self, sol, u_grads_of(self, sol)), LAMBDA u_physics :
            array([i \in 0..(nc * num_nodes - 1) |->
                      MkVec(self.vec, LAMBDA v :
                          SumTo([q \in 0..(num_quads - 1) |->
                                    Sum3(Mk3(LAMBDA d :
                                        u_physics[i \div num_nodes][q][v][d]
                                            * self.v_grads_JxW[i \div num_nodes][q][i % num_nodes][d]))],
                                num_quads))], nc * num_nodes))

\* a residual whose rows at the resolved Dirichlet nodes are replaced by
\* sol - value, as a solver that enforces the boundary data in the residual would
compute_residual_enforcing(self, sol) ==
    LET nc == num_cells(self)
        res == zeros(Len0(sol), self.vec)
        held(n, v) == {<<i, k>> \in (1..Len(self.node_inds_list)) \X (1..num_total_nodes(self)) :
                          /\ k <= Len(self.node_inds_list[i])
                          /\ self.node_inds_list[i][k] = n
                          /\ self.vec_inds_list[i][k] = v - 1}
    IN  With(weak_form_of(self, sol), LAMBDA weak_form :
        With(at_add(res, cells_flat(self.cells, nc), weak_form,
                    nc * num_nodes, self.vec), LAMBDA added :
            array([n \in 0..(Len0(sol) - 1) |->
                      MkVec(self.vec, LAMBDA v :
                          IF held(n, v) # {}
                          THEN LET ik == CHOOSE ik \in held(n, v) : TRUE
                               IN  sol[n][v] - self.vals_list[ik[1]][ik[2]]
                          ELSE added[n][v] - self.body_force[n][v] - self.neumann[n][v])],
                  Len0(sol))))

\* Laplace.compute_residual
compute_residual(self, sol) ==
    LET nc == num_cells(self)
        res == zeros(Len0(sol), self.vec)
    IN  With(weak_form_of(self, sol), LAMBDA weak_form :
        With(at_add(res, cells_flat(self.cells, nc), weak_form,
                    nc * num_nodes, self.vec), LAMBDA added :
            array([n \in 0..(Len0(sol) - 1) |->
                      MkVec(self.vec, LAMBDA v :
                          added[n][v] - self.body_force[n][v] - self.neumann[n][v])],
                  Len0(sol))))

\* Plasticity.update_stress_strain: [1] = the new sigmas_old, [2] = the new epsilons_old
update_stress_strain(self, sol) ==
    With(u_grads_of(self, sol), LAMBDA u_grads :
        LET nq == num_cells(self) * num_quads
            u_grads_reshape == [p \in 0..(nq - 1) |-> u_grads[p \div num_quads][p % num_quads]]
            sigmas == array([p \in 0..(nq - 1) |->
                          stress_return_map(u_grads_reshape[p], self.sigmas_old[p],
                                            self.epsilons_old[p])], nq)
            epsilons == array([p \in 0..(nq - 1) |-> strain(u_grads_reshape[p])], nq)
        IN  << sigmas, epsilons >>)

\* Plasticity.compute_avg_stress
compute_avg_stress(self) ==
    LET nq == Len0(self.JxW) * num_quads
        JxW_flat == [p \in 0..(nq - 1) |-> self.JxW[p \div num_quads][p % num_quads]]
    IN  With(SumTo(JxW_flat, nq), LAMBDA vol :
            Mk3(LAMBDA i : Mk3(LAMBDA j :
                RDiv(SumTo([p \in 0..(nq - 1) |-> self.sigmas_old[p][i][j] * JxW_flat[p]], nq),
                     vol))))

(* ----------------------------- post-processing ------------------------ *)

\* surface functions a driver passes to surface_integral, applied to the (vec, dim)
\* displacement gradient at one face quadrature point and giving a (vec,) row:
\* unity_fn of compute_surface_area, and the gradient along the third axis
surface_fn(self, tag, u_grad) ==
    CASE tag = "unity_fn" -> MkVec(self.vec, LAMBDA v : 1)
      [] tag = "normal_gradient" -> MkVec(self.vec, LAMBDA v : u_grad[v][3])

\* traction_fn of HyperElasticity.compute_traction at one face quadrature point:
\* the third column of first_PK_stress(u_grad).  The stress is jax.grad(psi) at
\* u_grad + I; it is kept as the term it is a function of.
traction_fn(self, u_grad) ==
    [fn |-> "first_PK_stress @ normals", u_grad |-> u_grad, normals |-> <<0, 0, 1>>]

\* Laplace.surface_integral.  For traction_fn the integral is kept as the list of
\* its terms (traction, nanson_scale), one per selected face and face quadrature point.
surface_integral(self, location, surface, sol) ==
    With(Neuman_boundary_conditions_inds(self, << location >>)[1], LAMBDA boundary_inds :
    With(get_face_shape_grads(self, boundary_inds), LAMBDA g :
        LET nt == Len(boundary_inds) * num_face_quads
            u_grads_face ==
                array([i \in 0..(nt - 1) |->
                    MkVec(self.vec, LAMBDA v : Mk3(LAMBDA d :
                        SumTo([n \in 0..(num_nodes - 1) |->
                                  sol[self.cells[boundary_inds[(i \div num_face_quads) + 1][1]][n]][v]
                                      * g[1][(i \div num_face_quads) + 1][i % num_face_quads][n][d]],
                              num_nodes)))], nt)
            nanson_scale == [i \in 0..(nt - 1) |->
                                g[2][(i \div num_face_quads) + 1][i % num_face_quads]]
        IN  IF surface = "traction_fn"
            THEN [fn |-> "np.sum(traction * nanson_scale)",
                  terms |-> TupleOf([i \in 0..(nt - 1) |->
                                        << traction_fn(self, u_grads_face[i]), nanson_scale[i] >>],
                                    nt)]
            ELSE MkVec(self.vec, LAMBDA v :
                     SumTo([i \in 0..(nt - 1) |->
                               surface_fn(self, surface, u_grads_face[i])[v] * nanson_scale[i]],
                           nt))))

\* LinearElasticity.compute_surface_area
compute_surface_area(self, location, sol) == surface_integral(self, location, "unity_fn", sol)

\* HyperElasticity.compute_traction
compute_traction(self, location, sol) == surface_integral(self, location, "traction_fn", sol)

(* ------------------------------ construction --------------------------- *)

\* FEM.__init__: the mesh, the precomputed geometry and the resolved Dirichlet data
FEM_init(name, mesh, dirichlet_bc_info) ==
    With([name |-> name, vec |-> IF name = "LinearPoisson" THEN 1 ELSE 3,
          points |-> mesh.points, cells |-> mesh.cells,
          shape_vals |-> get_shape_vals, face_shape_vals |-> get_face_shape_vals], LAMBDA s1 :
    With(get_shape_grads(s1), LAMBDA g :
    With(Dirichlet_boundary_conditions(s1, dirichlet_bc_info), LAMBDA d :
        s1 @@ [shape_grads |-> g[1], JxW |-> g[2],
               node_inds_list |-> d.val[1], vec_inds_list |-> d.val[2],
               vals_list |-> d.val[3]])))

\* Laplace.__init__ after super().__init__: self is the FEM part
Laplace_init(self, neumann_bc_info, source_info) ==
    self @@ [body_force |-> compute_body_force(self, source_info),
             neumann |-> compute_Neumann_integral(self, neumann_bc_info),
             v_grads_JxW |->
                 [c \in DOMAIN self.cells |-> [q \in 0..(num_quads - 1) |->
                     array([n \in 0..(num_nodes - 1) |->
                         Mk3(LAMBDA k : self.shape_grads[c][q][n][k] * self.JxW[c][q])],
                         num_nodes)]]]

\* LinearPoisson.__init__ and Plasticity.__init__ after super().__init__
Child_init(self) ==
    IF self.name = "Plasticity"
    THEN self @@ [epsilons_old |-> [p \in 0..(num_cells(self) * num_quads - 1) |-> ZeroMat(3)],
                  sigmas_old |-> [p \in 0..(num_cells(self) * num_quads - 1) |-> ZeroMat(3)]]
    ELSE self @@ [epsilons_old |-> <<>>, sigmas_old |-> <<>>]

\* Model(name, mesh, dirichlet_bc_info, None, neumann_bc_info, source_info): the object
Construct(name, mesh, dirichlet_bc_info, neumann_bc_info, source_info) ==
    Child_init(Laplace_init(FEM_init(name, mesh, dirichlet_bc_info),
                            neumann_bc_info, source_info))

\* obj = Model(...) as the driver sees it: the object, or the exception that left
\* FEM.__init__ at the resolution of the Dirichlet data (nothing after it runs)
New(name, mesh, dirichlet_bc_info, neumann_bc_info, source_info) ==
    LET d == Dirichlet_boundary_conditions([points |-> mesh.points], dirichlet_bc_info)
    IN  IF d.exc # "None" THEN d
        ELSE Return(Construct(name, mesh, dirichlet_bc_info, neumann_bc_info, source_info))

(* --------------------------- inputs of the driver ---------------------- *)

\* number of accepted load steps (update_stress_strain calls) in one run
MaxSteps == 2

Names == {"LinearPoisson", "Plasticity"}

\* dirichlet_bc_info = <<location_fns, vecs, value_fns>>
DirichletFixed == << <<"x_eq_0", "nowhere">>, <<0, 1>>, <<"zero", "one">> >>
DirichletOverlap == << <<"x_eq_0", "x0_plus_x1_le_2", "x_eq_0">>, <<0, 0, 2>>, <<"zero", "x1", "one">> >>
DirichletMismatch == << <<"x_eq_0", "x_eq_2">>, <<0>>, <<"zero", "one">> >>
DirichletInfos == {DirichletFixed, DirichletOverlap, DirichletMismatch}

\* specifications a careless driver passes: lists of unequal lengths, a location
\* function that raises, and both
DirichletMismatchValues == << <<"x_eq_0">>, <<0>>, <<"zero", "one">> >>
DirichletRaising == << <<"raises", "x_eq_0">>, <<0, 1>>, <<"zero", "one">> >>
DirichletRaisingMismatch == << <<"raises", "x_eq_2">>, <<0>>, <<"zero", "one">> >>
DirichletMisuse == {DirichletFixed, DirichletMismatch, DirichletMismatchValues,
                    DirichletRaising, DirichletRaisingMismatch}

\* neumann_bc_info = <<location_fns, value_fns>> or None
NeumannPull == << <<"x_eq_6", "nowhere">>, <<"pull", "x0">> >>

\* the problems the driver sets up: <<neumann_bc_info, source_info>>
LoadCases == { <<"None", "None">>, <<NeumannPull, "weight">> }

LocationLists == { <<"x_eq_0", "x_eq_2", "x_eq_6", "x0_plus_x1_le_2", "origin", "nowhere">> }

\* trial solutions: <<"stretch", k>> is u = (k*x0, 0, 0), <<"bend", k>> is u = (k*x0*x1, 0, 0)
SolTags == { <<"stretch", 0>>, <<"stretch", 1>>, <<"bend", 1>> }

sol_of(tag, pts, vec) ==
    array([n \in 0..(Len0(pts) - 1) |->
              MkVec(vec, LAMBDA v :
                  IF v # 1 THEN 0
                  ELSE IF tag[1] = "stretch" THEN tag[2] * pts[n][1]
                       ELSE tag[2] * pts[n][1] * pts[n][2])], Len0(pts))

(* -------------------------------- the state ---------------------------- *)

VARIABLES
    name, vec, points, cells,                   \* self.name, self.vec, self.points, self.cells
    shape_grads, JxW, v_grads_JxW,              \* precomputed geometry
    node_inds_list, vec_inds_list, vals_list,   \* resolved Dirichlet data
    body_force, neumann,                        \* precomputed right-hand sides
    sigmas_old, epsilons_old,                   \* plasticity history
    ctor,                                       \* the arguments of the constructor call
    steps,                                      \* update_stress_strain calls so far
    op, arg, ret,                               \* the last call, its arguments, its result
    frame,                                      \* the update_stress_strain call in flight
    committed                                   \* the history pair of the last completed update

fields == << name, vec, points, cells, shape_grads, JxW, v_grads_JxW,
             node_inds_list, vec_inds_list, vals_list, body_force, neumann,
             sigmas_old, epsilons_old >>
vars == << fields, ctor, steps, op, arg, ret, frame, committed >>

geometry == << name, vec, points, cells, shape_grads, JxW, v_grads_JxW >>
dirichlet == << node_inds_list, vec_inds_list, vals_list >>
rhs_vectors == << body_force, neumann >>
history == << sigmas_old, epsilons_old >>

\* the object the methods receive
Self ==
    [name |-> name, vec |-> vec, points |-> points, cells |-> cells,
     shape_vals |-> get_shape_vals, face_shape_vals |-> get_face_shape_vals,
     shape_grads |-> shape_grads, JxW |-> JxW, v_grads_JxW |-> v_grads_JxW,
     node_inds_list |-> node_inds_list, vec_inds_list |-> vec_inds_list,
     vals_list |-> vals_list, body_force |-> body_force, neumann |-> neumann,
     sigmas_old |-> sigmas_old, epsilons_old |-> epsilons_old]

Sols == {sol_of(t, points, vec) : t \in SolTags}

\* a solution array with one row more than the mesh has nodes
sol_padded(tag, pts, nv) ==
    array([n \in 0..Len0(pts) |->
              IF n < Len0(pts) THEN sol_of(tag, pts, nv)[n] ELSE MkVec(nv, LAMBDA v : 1)],
          Len0(pts) + 1)

LongSols == {sol_padded(t, points, vec) : t \in {<<"stretch", 1>>}}

(* ------------------------------- operations ---------------------------- *)

\* no update_stress_strain call is in flight
NoFrame == [line |-> 0, sol |-> <<>>, sigmas |-> <<>>, epsilons |-> <<>>]

\* the state after obj = Model(name, mesh, dirichlet_bc_info, None, neumann_bc_info,
\* source_info) returned or raised; after a raise there is no object
Start(nm, mesh, info, nb, src) ==
    \E r \in {New(nm, mesh, info, nb, src)} :
        /\ IF r.exc = "None"
           THEN /\ name = r.val.name /\ vec = r.val.vec
                /\ points = r.val.points /\ cells = r.val.cells
                /\ shape_grads = r.val.shape_grads /\ JxW = r.val.JxW
                /\ v_grads_JxW = r.val.v_grads_JxW
                /\ node_inds_list = r.val.node_inds_list
                /\ vec_inds_list = r.val.vec_inds_list
                /\ vals_list = r.val.vals_list
                /\ body_force = r.val.body_force /\ neumann = r.val.neumann
                /\ sigmas_old = r.val.sigmas_old /\ epsilons_old = r.val.epsilons_old
                /\ committed = << r.val.sigmas_old, r.val.epsilons_old >>
                /\ ret = Return("None")
           ELSE /\ name = "None" /\ vec = 0
                /\ points = <<>> /\ cells = <<>>
                /\ shape_grads = <<>> /\ JxW = <<>> /\ v_grads_JxW = <<>>
                /\ node_inds_list = <<>> /\ vec_inds_list = <<>> /\ vals_list = <<>>
                /\ body_force = <<>> /\ neumann = <<>>
                /\ sigmas_old = <<>> /\ epsilons_old = <<>>
                /\ committed = << <<>>, <<>> >>
                /\ ret = r
        /\ ctor = [name |-> nm, mesh |-> mesh, dirichlet_bc_info |-> info,
                   neumann_bc_info |-> nb, source_info |-> src]
        /\ steps = 0
        /\ frame = NoFrame
        /\ op = "__init__" /\ arg = <<>>

\* the driver of the solver: a well-formed problem
Init ==
    \E nm \in Names, mesh \in Meshes, load \in LoadCases :
        Start(nm, mesh, DirichletFixed, load[1], load[2])

\* a call made while no update_stress_strain call is in flight runs to its end
Atomic ==
    /\ frame.line = 0
    /\ UNCHANGED frame
    /\ committed' = << sigmas_old', epsilons_old' >>

\* a compute_residual that commits the stresses it evaluated as the new history
CallComputeResidualCommitting(sol) ==
    /\ op' = "compute_residual" /\ arg' = sol
    /\ ret' = Return(compute_residual(Self, sol))
    /\ IF name = "Plasticity"
       THEN \E new \in {update_stress_strain(Self, sol)} :
                /\ sigmas_old' = new[1]
                /\ epsilons_old' = new[2]
       ELSE UNCHANGED history
    /\ UNCHANGED << geometry, dirichlet, rhs_vectors, ctor, steps >>

\* res = model.compute_residual(sol).  sol is not inspected: every row index of
\* the connectivity is gathered from it, res = np.zeros_like(sol) has its shape,
\* and only the last statement, res - self.body_force, fails (the arrays do not
\* broadcast) when sol has more rows than the mesh has nodes; jax reports that
\* with a TypeError or a ValueError, depending on its version.
CallComputeResidual(sol) ==
    /\ op' = "compute_residual" /\ arg' = sol
    /\ IF Len0(sol) = Len0(body_force)
       THEN ret' = Return(compute_residual(Self, sol))
       ELSE \E e \in {"TypeError", "ValueError"} : ret' = Raise(e)
    /\ UNCHANGED << fields, ctor, steps >>

\* sigmas = model.compute_physics(sol, u_grads) on the gradients of sol
\* a compute_physics that stores the stresses it evaluated as sigmas_old
CallComputePhysicsStoring(sol) ==
    /\ op' = "compute_physics"
    /\ \E u_grads \in {u_grads_of(Self, sol)} :
           /\ arg' = << sol, u_grads >>
           /\ ret' = Return(compute_physics(Self, sol, u_grads))
    /\ IF name = "Plasticity"
       THEN sigmas_old' = update_stress_strain(Self, sol)[1]
       ELSE UNCHANGED sigmas_old
    /\ UNCHANGED << geometry, dirichlet, rhs_vectors, epsilons_old, ctor, steps >>

CallComputePhysics(sol) ==
    /\ op' = "compute_physics"
    /\ \E u_grads \in {u_grads_of(Self, sol)} :
           /\ arg' = << sol, u_grads >>
           /\ ret' = Return(compute_physics(Self, sol, u_grads))
    /\ UNCHANGED << fields, ctor, steps >>

\* an update_stress_strain that stores the new strain before it maps the stress
CallUpdateStressStrainStrainFirst(sol) ==
    /\ name = "Plasticity"
    /\ steps < MaxSteps
    /\ \E epsilons \in {update_stress_strain(Self, sol)[2]} :
           /\ epsilons_old' = epsilons
           /\ sigmas_old' = update_stress_strain([Self EXCEPT !.epsilons_old = epsilons], sol)[1]
    /\ steps' = steps + 1
    /\ op' = "update_stress_strain" /\ arg' = sol /\ ret' = Return("None")
    /\ UNCHANGED << geometry, dirichlet, rhs_vectors, ctor >>

\* model.update_stress_strain(sol)
CallUpdateStressStrain(sol) ==
    /\ name = "Plasticity"
    /\ steps < MaxSteps
    /\ \E new \in {update_stress_strain(Self, sol)} :
           /\ sigmas_old' = new[1]
           /\ epsilons_old' = new[2]
    /\ steps' = steps + 1
    /\ op' = "update_stress_strain" /\ arg' = sol /\ ret' = Return("None")
    /\ UNCHANGED << geometry, dirichlet, rhs_vectors, ctor >>

\* an update of the boundary data that also re-initialises the plasticity history
CallUpdateDirichletResetting(info) ==
    \E r \in {Dirichlet_boundary_conditions(Self, info)} :
        /\ op' = "update_Dirichlet_boundary_conditions" /\ arg' = info
        /\ IF r.exc = "None"
           THEN /\ node_inds_list' = r.val[1]
                /\ vec_inds_list' = r.val[2]
                /\ vals_list' = r.val[3]
                /\ ret' = Return("None")
           ELSE /\ UNCHANGED dirichlet
                /\ ret' = r
        /\ sigmas_old' = [p \in DOMAIN sigmas_old |-> ZeroMat(3)]
        /\ epsilons_old' = [p \in DOMAIN epsilons_old |-> ZeroMat(3)]
        /\ UNCHANGED << geometry, rhs_vectors, ctor, steps >>

\* an update that appends the new resolution to the lists already stored
CallUpdateDirichletAppending(info) ==
    \E r \in {Dirichlet_boundary_conditions(Self, info)} :
        /\ op' = "update_Dirichlet_boundary_conditions" /\ arg' = info
        /\ IF r.exc = "None"
           THEN /\ node_inds_list' = node_inds_list \o r.val[1]
                /\ vec_inds_list' = vec_inds_list \o r.val[2]
                /\ vals_list' = vals_list \o r.val[3]
                /\ ret' = Return("None")
           ELSE /\ UNCHANGED dirichlet
                /\ ret' = r
        /\ UNCHANGED << geometry, rhs_vectors, history, ctor, steps >>

\* model.update_Dirichlet_boundary_conditions(dirichlet_bc_info)
\* an update that empties the stored lists before it resolves the new specification
CallUpdateDirichletInPlace(info) ==
    \E r \in {Dirichlet_boundary_conditions(Self, info)} :
        /\ op' = "update_Dirichlet_boundary_conditions" /\ arg' = info
        /\ IF r.exc = "None"
           THEN /\ node_inds_list' = r.val[1]
                /\ vec_inds_list' = r.val[2]
                /\ vals_list' = r.val[3]
                /\ ret' = Return("None")
           ELSE /\ node_inds_list' = <<>>
                /\ vec_inds_list' = <<>>
                /\ vals_list' = <<>>
                /\ ret' = r
        /\ UNCHANGED << geometry, rhs_vectors, history, ctor, steps >>

CallUpdateDirichlet(info) ==
    \E r \in {Dirichlet_boundary_conditions(Self, info)} :
        /\ op' = "update_Dirichlet_boundary_conditions" /\ arg' = info
        /\ IF r.exc = "None"
           THEN /\ node_inds_list' = r.val[1]
                /\ vec_inds_list' = r.val[2]
                /\ vals_list' = r.val[3]
                /\ ret' = Return("None")
           ELSE /\ UNCHANGED dirichlet
                /\ ret' = r
        /\ UNCHANGED << geometry, rhs_vectors, history, ctor, steps >>

\* boundary_inds_list = model.Neuman_boundary_conditions_inds(location_fns)
CallNeumanInds(location_fns) ==
    /\ op' = "Neuman_boundary_conditions_inds" /\ arg' = location_fns
    /\ ret' = Return(Neuman_boundary_conditions_inds(Self, location_fns))
    /\ UNCHANGED << fields, ctor, steps >>

\* a compute_avg_stress that weights the stored stresses in place before it sums
CallComputeAvgStressInPlace ==
    /\ name = "Plasticity"
    /\ op' = "compute_avg_stress" /\ arg' = <<>>
    /\ ret' = Return(compute_avg_stress(Self))
    /\ sigmas_old' = [p \in DOMAIN sigmas_old |->
                         Mk3(LAMBDA i : Mk3(LAMBDA j :
                             sigmas_old[p][i][j] * JxW[p \div num_quads][p % num_quads]))]
    /\ UNCHANGED << geometry, dirichlet, rhs_vectors, epsilons_old, ctor, steps >>

\* avg = model.compute_avg_stress()
CallComputeAvgStress ==
    /\ name = "Plasticity"
    /\ op' = "compute_avg_stress" /\ arg' = <<>>
    /\ ret' = Return(compute_avg_stress(Self))
    /\ UNCHANGED << fields, ctor, steps >>

\* val = model.surface_integral(location_fn, surface_fn, sol)
CallSurfaceIntegral(location, surface, sol) ==
    /\ op' = "surface_integral" /\ arg' = << location, surface, sol >>
    /\ ret' = Return(surface_integral(Self, location, surface, sol))
    /\ UNCHANGED << fields, ctor, steps >>

\* area = model.compute_surface_area(location_fn, sol)
CallComputeSurfaceArea(location, sol) ==
    /\ name = "LinearElasticity"
    /\ op' = "compute_surface_area" /\ arg' = << location, sol >>
    /\ ret' = Return(compute_surface_area(Self, location, sol))
    /\ UNCHANGED << fields, ctor, steps >>

\* force = model.compute_traction(location_fn, sol)
CallComputeTraction(location, sol) ==
    /\ name = "HyperElasticity"
    /\ op' = "compute_traction" /\ arg' = << location, sol >>
    /\ ret' = Return(compute_traction(Self, location, sol))
    /\ UNCHANGED << fields, ctor, steps >>

Next ==
    \/ \E sol \in Sols : CallComputeResidual(sol) /\ Atomic
    \/ \E sol \in Sols : CallComputePhysics(sol) /\ Atomic
    \/ \E sol \in Sols : CallUpdateStressStrain(sol) /\ Atomic
    \/ \E info \in DirichletInfos : CallUpdateDirichlet(info) /\ Atomic
    \/ \E location_fns \in LocationLists : CallNeumanInds(location_fns) /\ Atomic

Spec == Init /\ [][Next]_vars

(* ------------- a driver with a thread that updates the history -------- *)

\* update_stress_strain, l.785-791: the call evaluated its locals sigmas and epsilons
UpdateEnter(sol) ==
    /\ name = "Plasticity"
    /\ steps < MaxSteps
    /\ frame.line = 0
    /\ \E new \in {update_stress_strain(Self, sol)} :
           frame' = [line |-> 793, sol |-> sol, sigmas |-> new[1], epsilons |-> new[2]]
    /\ UNCHANGED << fields, ctor, steps, op, arg, ret, committed >>

\* an update_stress_strain that returns after its first assignment
UpdateAssignSigmasOnly ==
    /\ frame.line = 793
    /\ sigmas_old' = frame.sigmas
    /\ frame' = NoFrame
    /\ steps' = steps + 1
    /\ op' = "update_stress_strain" /\ arg' = frame.sol /\ ret' = Return("None")
    /\ UNCHANGED << geometry, dirichlet, rhs_vectors, epsilons_old, ctor, committed >>

\* update_stress_strain, l.793: self.sigmas_old = sigmas.reshape(...)
UpdateAssignSigmas ==
    /\ frame.line = 793
    /\ sigmas_old' = frame.sigmas
    /\ frame' = [frame EXCEPT !.line = 794]
    /\ UNCHANGED << geometry, dirichlet, rhs_vectors, epsilons_old, ctor, steps,
                    op, arg, ret, committed >>

\* update_stress_strain, l.794: self.epsilons_old = epsilons.reshape(...), and the
\* call returns: the pair it assigned is committed
UpdateAssignEpsilons ==
    /\ frame.line = 794
    /\ epsilons_old' = frame.epsilons
    /\ committed' = << sigmas_old, frame.epsilons >>
    /\ frame' = NoFrame
    /\ steps' = steps + 1
    /\ op' = "update_stress_strain" /\ arg' = frame.sol /\ ret' = Return("None")
    /\ UNCHANGED << geometry, dirichlet, rhs_vectors, sigmas_old, ctor >>

\* compute_avg_stress from another thread; it may run during an update
AvgStressAnyTime ==
    /\ CallComputeAvgStress
    /\ UNCHANGED << frame, committed >>

InitThreads ==
    \E mesh \in Meshes, load \in LoadCases :
        Start("Plasticity", mesh, DirichletFixed, load[1], load[2])

\* the driver serializes: compute_residual and compute_physics are entered only
\* while no update_stress_strain is in flight (Atomic)
NextThreads ==
    \/ \E sol \in Sols : UpdateEnter(sol)
    \/ UpdateAssignSigmas
    \/ UpdateAssignEpsilons
    \/ AvgStressAnyTime
    \/ \E sol \in Sols : CallComputePhysics(sol) /\ Atomic
    \/ \E sol \in Sols : CallComputeResidual(sol) /\ Atomic

SpecThreads == InitThreads /\ [][NextThreads]_vars

(* ---------------------- a driver that post-processes ------------------ *)

PostNames == {"Plasticity", "LinearElasticity", "HyperElasticity"}
PostLocations == {"x_eq_6", "nowhere"}
PostSurfaceFns == {"unity_fn", "normal_gradient"}
PostSols == {sol_of(t, points, vec) : t \in {<<"bend", 1>>}}

\* the classes whose compute_physics the driver of this specification evaluates
Assembled == name \in {"Plasticity", "LinearElasticity"}

InitPost ==
    \E nm \in PostNames : Start(nm, MeshTwo, DirichletFixed, NeumannPull, "weight")

NextPost ==
    \/ CallComputeAvgStress /\ Atomic
    \/ \E location \in PostLocations, surface \in PostSurfaceFns, sol \in PostSols :
           CallSurfaceIntegral(location, surface, sol) /\ Atomic
    \/ \E location \in PostLocations, sol \in PostSols :
           CallComputeSurfaceArea(location, sol) /\ Atomic
    \/ \E location \in PostLocations, sol \in PostSols :
           CallComputeTraction(location, sol) /\ Atomic
    \/ Assembled /\ \E sol \in Sols : CallComputeResidual(sol) /\ Atomic
    \/ Assembled /\ \E sol \in Sols : CallComputePhysics(sol) /\ Atomic
    \/ \E sol \in Sols : CallUpdateStressStrain(sol) /\ Atomic
    \/ \E info \in {DirichletOverlap} : CallUpdateDirichlet(info) /\ Atomic

SpecPost == InitPost /\ [][NextPost]_vars

(* ----------------------- a driver that misuses the API ----------------- *)

\* the constructor returned an object
Constructed == name # "None"

InitMisuse ==
    \E nm \in Names, mesh \in {MeshCube, MeshMirrored}, info \in DirichletMisuse :
        Start(nm, mesh, info, NeumannPull, "weight")

\* what the careless driver passes to update_Dirichlet_boundary_conditions
DirichletUpdates == DirichletMisuse \cup {DirichletOverlap}

NextMisuse ==
    \/ Constructed /\ \E sol \in Sols \cup LongSols : CallComputeResidual(sol) /\ Atomic
    \/ Constructed /\ \E sol \in Sols : CallComputePhysics(sol) /\ Atomic
    \/ Constructed /\ \E sol \in Sols \cup LongSols : CallUpdateStressStrain(sol) /\ Atomic
    \/ Constructed /\ \E info \in DirichletUpdates : CallUpdateDirichlet(info) /\ Atomic
    \/ Constructed /\ \E location_fns \in LocationLists : CallNeumanInds(location_fns) /\ Atomic

SpecMisuse == InitMisuse /\ [][NextMisuse]_vars

(* ------------------------------ properties ----------------------------- *)

TypeOK == steps \in 0..MaxSteps

num_points == Len0(cells) * num_quads
ZeroHistory == [p \in 0..(num_points - 1) |-> ZeroMat(3)]

\* the displacement gradient of quadrature point p = c*num_quads + q for solution sol
grad_at(sol, p) == u_grads_of(Self, sol)[p \div num_quads][p % num_quads]

\* C1: for a Plasticity model, a compute_physics or compute_residual call leaves
\* sigmas_old and epsilons_old as they were, and every step that changes either
\* of them is an update_stress_strain call.
C1_HistoryFrame ==
    [][ /\ (op' \in {"compute_physics", "compute_residual"} => UNCHANGED history)
        /\ (history' # history => op' = "update_stress_strain") ]_vars

\* a residual was evaluated on a model whose committed history is not zero
C1_Witness ==
    /\ name = "Plasticity" /\ op = "compute_residual" /\ steps > 0
    /\ \E p \in 0..(num_points - 1) : sigmas_old[p] # ZeroMat(3)
    /\ \E n \in DOMAIN ret.val : ret.val[n] # ZeroVec(vec)

\* C2: update_stress_strain(sol) commits at every quadrature point the symmetric
\* strain of sol and the stress return-mapped from sol and the history as it was
\* before the call; the committed stress is what compute_physics returned for the
\* gradients of sol just before the update.
C2_CommitFromPreCallHistory ==
    [][ op' = "update_stress_strain" =>
          LET sol == arg'
              before == compute_physics(Self, sol, u_grads_of(Self, sol))
          IN  /\ DOMAIN sigmas_old' = 0..(num_points - 1)
              /\ DOMAIN epsilons_old' = 0..(num_points - 1)
              /\ \A p \in 0..(num_points - 1) :
                    /\ epsilons_old'[p] = strain(grad_at(sol, p))
                    /\ sigmas_old'[p] = before[p \div num_quads][p % num_quads] ]_vars

\* a second load step was committed, and at some point the committed stress
\* differs from the one a zero history would have given
C2_Witness ==
    /\ op = "update_stress_strain" /\ steps = 2
    /\ \E p \in 0..(num_points - 1) :
          /\ sigmas_old[p] # stress_return_map(grad_at(arg, p), ZeroMat(3), ZeroMat(3))
          /\ epsilons_old[p] # ZeroMat(3)

\* C3: a freshly constructed Plasticity model holds zero stress and zero strain at
\* each of its num_cells*8 quadrature points, and afterwards no call other than
\* update_stress_strain touches the history; a non-zero history becomes zero again
\* only when update_stress_strain commits a solution whose strain is zero at
\* every point.
C3_ZeroOnlyAtConstruction ==
    [][ /\ (op = "__init__" /\ name = "Plasticity" =>
              /\ DOMAIN sigmas_old = 0..(Len0(cells) * 8 - 1)
              /\ DOMAIN epsilons_old = 0..(Len0(cells) * 8 - 1)
              /\ \A p \in 0..(Len0(cells) * 8 - 1) :
                    sigmas_old[p] = ZeroMat(3) /\ epsilons_old[p] = ZeroMat(3))
        /\ (op' \in {"update_Dirichlet_boundary_conditions", "compute_residual",
                     "compute_physics", "Neuman_boundary_conditions_inds"}
              => UNCHANGED history)
        /\ (name = "Plasticity" /\ history # << ZeroHistory, ZeroHistory >>
                /\ history' = << ZeroHistory, ZeroHistory >>
              => /\ op' = "update_stress_strain"
                 /\ \A p \in 0..(num_points - 1) : strain(grad_at(arg', p)) = ZeroMat(3)) ]_vars

\* boundary data were replaced on a model that carries a committed, non-zero history
C3_Witness ==
    /\ name = "Plasticity" /\ op = "update_Dirichlet_boundary_conditions"
    /\ ret.exc = "None" /\ steps > 0
    /\ \E p \in 0..(num_points - 1) : epsilons_old[p] # ZeroMat(3)

\* C4: in a compute_physics evaluation every quadrature point is decided from its
\* own yield excess f of that evaluation: wherever f <= 0 the returned stress is
\* the trial stress, stress(strain(u_grad) - epsilon_old) + sigma_old, unchanged.
C4_ElasticIsTrial ==
    (name = "Plasticity" /\ op = "compute_physics") =>
        \A p \in 0..(num_points - 1) :
            LET trial == MatAdd(stress(MatSub(strain(arg[2][p \div num_quads][p % num_quads]),
                                              epsilons_old[p])), sigmas_old[p])
            IN  f_yield_of(trial) <= 0 => ret.val[p \div num_quads][p % num_quads] = trial

\* one evaluation on a loaded history holds a point below the yield surface with a
\* non-zero trial stress and a point above it whose stress was corrected
C4_Witness ==
    /\ name = "Plasticity" /\ op = "compute_physics" /\ steps > 0
    /\ \E p, r \in 0..(num_points - 1) :
          LET trial(k) == sigma_trial_of(arg[2][k \div num_quads][k % num_quads],
                                         sigmas_old[k], epsilons_old[k])
          IN  /\ f_yield_of(trial(p)) <= 0 /\ trial(p) # ZeroMat(3)
              /\ sigmas_old[p] # ZeroMat(3)
              /\ f_yield_of(trial(r)) > 0
              /\ ret.val[r \div num_quads][r % num_quads] # trial(r)

(* ------------------------- assembly (scatter-add) ---------------------- *)

\* the sum of the rows k of vals whose index entry idx[k] is node n, component v
Gathered(idx, vals, L, n, v) ==
    SumTo([k \in 0..(L - 1) |-> IF idx[k] = n THEN vals[k][v] ELSE 0], L)

\* the (num_total_nodes, vec) array of those sums
GatheredArray(idx, vals, L) ==
    array([n \in 0..(Len0(points) - 1) |->
              MkVec(vec, LAMBDA v : Gathered(idx, vals, L, n, v))], Len0(points))

RECURSIVE NeumannGathered(_, _, _)
\* the Neumann integral of entries 1..i as sums per node: entry j adds, at node n,
\* the int_vals rows of every (selected face, local node) whose node is n
NeumannGathered(boundary_inds_list, traction_list, i) ==
    IF i = 0 THEN zeros(Len0(points), vec)
    ELSE With(NeumannGathered(boundary_inds_list, traction_list, i - 1), LAMBDA prev :
         With(array(int_vals_of(Self, boundary_inds_list[i], traction_list[i],
                        get_face_shape_grads(Self, boundary_inds_list[i])[2]),
                    Len(boundary_inds_list[i]) * num_nodes), LAMBDA int_vals :
         With(GatheredArray(subset_cells_of(Self, boundary_inds_list[i]), int_vals,
                            Len(boundary_inds_list[i]) * num_nodes), LAMBDA here :
             array([n \in 0..(Len0(points) - 1) |-> VecAdd(prev[n], here[n], vec)],
                   Len0(points)))))

\* the mesh of the object with its cells listed in the reverse order
ReversedMesh ==
    [points |-> points,
     cells |-> [c \in 0..(Len0(cells) - 1) |-> cells[Len0(cells) - 1 - c]]]

\* the object built on ReversedMesh from the same constructor arguments, carrying
\* the same history (the block of cell c is the block of cell num_cells-1-c)
ReversedSelf ==
    LET nc == Len0(cells)
        built == Construct(ctor.name, ReversedMesh, ctor.dirichlet_bc_info,
                           ctor.neumann_bc_info, ctor.source_info)
        moved(h) == [p \in DOMAIN h |->
                        h[(nc - 1 - (p \div num_quads)) * num_quads + (p % num_quads)]]
    IN  [built EXCEPT !.sigmas_old = moved(sigmas_old), !.epsilons_old = moved(epsilons_old)]

WithDirichlet(lists) ==
    [Self EXCEPT !.node_inds_list = lists[1], !.vec_inds_list = lists[2],
                 !.vals_list = lists[3]]

\* C6: the residual of a solution does not depend on the resolved Dirichlet lists:
\* with the lists of any other specification, or with none, in the place of the
\* stored ones, compute_residual returns the same array for the same solution
\* and history.
C6_ResidualIgnoresDirichlet ==
    op = "compute_residual" =>
        /\ \A info \in {DirichletFixed, DirichletOverlap} :
              compute_residual(WithDirichlet(Dirichlet_boundary_conditions(Self, info).val),
                               arg) = ret.val
        /\ compute_residual(WithDirichlet(<< <<>>, <<>>, <<>> >>), arg) = ret.val

\* a residual evaluated after the boundary data were replaced, not zero at a node
\* and component that the stored lists hold
C6_Witness ==
    /\ op = "compute_residual"
    /\ node_inds_list # Dirichlet_boundary_conditions(Self, ctor.dirichlet_bc_info).val[1]
    /\ \E i \in 1..Len(node_inds_list) : \E k \in 1..Len(node_inds_list[i]) :
          /\ vec_inds_list[i][k] < vec
          /\ ret.val[node_inds_list[i][k]][vec_inds_list[i][k] + 1] # 0

(* --------------------------- Neumann face selection -------------------- *)

\* the local nodes of face f = 2*d + e: those whose reference coordinate d is the
\* extreme e
FaceNodes(f) ==
    {n \in 0..(num_nodes - 1) : node_points[n][(f \div 2) + 1] = face_extremes[(f % 2) + 1]}

\* the corner nodes of face f of cell c whose coordinates satisfy the predicate
Satisfying(tag, c, f) == {n \in FaceNodes(f) : location_fn(tag, points[cells[c][n]])}

\* C7: for each predicate the returned rows are, without repetition, exactly the
\* pairs (cell, local face) all four corner nodes of which satisfy the predicate,
\* over every cell and each of its six faces.
C7_AllFourCorners ==
    op = "Neuman_boundary_conditions_inds" =>
        /\ Len(ret.val) = Len(arg)
        /\ \A f \in 0..(num_faces - 1) : Cardinality(FaceNodes(f)) = 4
        /\ \A i \in 1..Len(arg) :
              LET rows == {ret.val[i][k] : k \in 1..Len(ret.val[i])}
              IN  /\ Cardinality(rows) = Len(ret.val[i])
                  /\ rows = {cf \in (0..(Len0(cells) - 1)) \X (0..(num_faces - 1)) :
                                Cardinality(Satisfying(arg[i], cf[1], cf[2])) = 4}

\* a selection in which one predicate selected a face, left out a face with three
\* of its corners satisfying it and left out a face with two
C7_Witness ==
    /\ op = "Neuman_boundary_conditions_inds"
    /\ \E i \in 1..Len(arg) :
          LET rows == {ret.val[i][k] : k \in 1..Len(ret.val[i])}
              faces == (0..(Len0(cells) - 1)) \X (0..(num_faces - 1))
          IN  /\ rows # {}
              /\ \E cf \in faces \ rows : Cardinality(Satisfying(arg[i], cf[1], cf[2])) = 3
              /\ \E cf \in faces \ rows : Cardinality(Satisfying(arg[i], cf[1], cf[2])) = 2
    /\ \E i \in 1..Len(arg) : \E cf \in (0..(Len0(cells) - 1)) \X (0..(num_faces - 1)) :
          /\ Cardinality(Satisfying(arg[i], cf[1], cf[2])) = 1
          /\ \A k \in 1..Len(ret.val[i]) : ret.val[i][k] # cf

(* ---------------------------- Dirichlet resolution --------------------- *)

\* the resolved lists the object stores
StoredDirichlet == << node_inds_list, vec_inds_list, vals_list >>

\* lists is what the specification info resolves to on the points of the mesh
DirichletResolved(info, lists) ==
    /\ Len(lists[1]) = Len(info[1]) /\ Len(lists[2]) = Len(info[1])
    /\ Len(lists[3]) = Len(info[1])
    /\ \A i \in 1..Len(info[1]) :
          LET node_inds == lists[1][i]
          IN  /\ {node_inds[k] : k \in 1..Len(node_inds)} =
                     {n \in 0..(Len0(points) - 1) : location_fn(info[1][i], points[n])}
              /\ \A k, l \in 1..Len(node_inds) : k # l => node_inds[k] # node_inds[l]
              /\ Len(lists[2][i]) = Len(node_inds)
              /\ \A k \in 1..Len(node_inds) : lists[2][i][k] = info[2][i]
              /\ Len(lists[3][i]) = Len(node_inds)
              /\ \A k \in 1..Len(node_inds) :
                    lists[3][i][k] = value_fn(info[3][i], points[node_inds[k]])

\* C8: the lists stored by the constructor and by a successful update are the three
\* parallel lists of the specification, one element per entry in entry order:
\* entry i holds exactly the nodes that satisfy predicate i, once each, component
\* i repeated for each of them, and value function i at each of them, whatever
\* the other entries hold.
C8_DirichletResolution ==
    /\ op = "__init__" => DirichletResolved(ctor.dirichlet_bc_info, StoredDirichlet)
    /\ (op = "update_Dirichlet_boundary_conditions" /\ ret.exc = "None")
          => DirichletResolved(arg, StoredDirichlet)

\* a specification two entries of which claim the same node for the same
\* component was resolved, and the node is in both entries
C8_Witness ==
    /\ op = "update_Dirichlet_boundary_conditions" /\ ret.exc = "None"
    /\ \E i, j \in 1..Len(node_inds_list) :
          /\ i < j /\ arg[2][i] = arg[2][j]
          /\ \E k \in 1..Len(node_inds_list[i]) : \E l \in 1..Len(node_inds_list[j]) :
                /\ node_inds_list[i][k] = node_inds_list[j][l]
                /\ vec_inds_list[i][k] = vec_inds_list[j][l]
                /\ vals_list[i][k] # vals_list[j][l]

RECURSIVE Ascending(_)
\* the elements of a finite set of numbers, ascending
Ascending(S) ==
    IF S = {} THEN <<>>
    ELSE LET m == CHOOSE x \in S : \A y \in S : y <= x
         IN  Append(Ascending(S \ {m}), m)

\* the resolution of a specification alone: per entry the satisfying nodes in
\* ascending order, the component for each, the value at each
ResolutionAlone(info) ==
    LET nodes(i) == Ascending({n \in 0..(Len0(points) - 1) :
                                  location_fn(info[1][i], points[n])})
    IN  << [i \in 1..Len(info[1]) |-> nodes(i)],
           [i \in 1..Len(info[1]) |-> [k \in 1..Len(nodes(i)) |-> info[2][i]]],
           [i \in 1..Len(info[1]) |->
               [k \in 1..Len(nodes(i)) |-> value_fn(info[3][i], points[nodes(i)[k]])]] >>

\* C9: every update_Dirichlet_boundary_conditions call that returns leaves as the
\* stored lists the resolution of the specification it was given and nothing
\* else, whatever the lists held before it.
C9_ReplacedByLatest ==
    [][ (op' = "update_Dirichlet_boundary_conditions" /\ ret'.exc = "None")
            => StoredDirichlet' = ResolutionAlone(arg') ]_vars

\* an update replaced construction-time lists, the first of them not empty, by
\* lists of another length whose second entry is not the construction-time one
C9_Witness ==
    /\ op = "update_Dirichlet_boundary_conditions" /\ ret.exc = "None"
    /\ Len(node_inds_list) # Len(ctor.dirichlet_bc_info[1])
    /\ LET first == ResolutionAlone(ctor.dirichlet_bc_info)
       IN  /\ Len(first[1][1]) > 0
           /\ node_inds_list[2] # first[1][2]
           /\ vals_list[2] # first[3][2]

(* ------------------------------ empty selections ----------------------- *)

\* the entries of a Neumann specification whose predicate selects a face
RECURSIVE SelectingEntries(_, _)
SelectingEntries(info, i) ==
    IF i = 0 THEN << <<>>, <<>> >>
    ELSE LET rest == SelectingEntries(info, i - 1)
         IN  IF \E cf \in (0..(Len0(cells) - 1)) \X (0..(num_faces - 1)) :
                    Cardinality(Satisfying(info[1][i], cf[1], cf[2])) = 4
             THEN << Append(rest[1], info[1][i]), Append(rest[2], info[2][i]) >>
             ELSE rest

\* C10: a Neumann predicate that selects no face resolves to an empty row list and
\* an empty traction list, and the Neumann integral is the integral of the
\* entries that select a face (zero when none does); a Dirichlet predicate that
\* selects no node resolves to three empty arrays; and the constructor and
\* compute_residual return normally.
C10_EmptySelection ==
    /\ op = "Neuman_boundary_conditions_inds" =>
          \A i \in 1..Len(arg) :
              (\A cf \in (0..(Len0(cells) - 1)) \X (0..(num_faces - 1)) :
                    Cardinality(Satisfying(arg[i], cf[1], cf[2])) < 4)
                => /\ Len(ret.val[i]) = 0
                   /\ Len(Neuman_boundary_conditions_vals(
                              Self, [j \in 1..Len(arg) |-> "pull"], ret.val)[i]) = 0
    /\ (op = "__init__" /\ ctor.neumann_bc_info # "None") =>
          LET kept == SelectingEntries(ctor.neumann_bc_info, Len(ctor.neumann_bc_info[1]))
          IN  neumann = IF Len(kept[1]) = 0 THEN zeros(Len0(points), vec)
                        ELSE compute_Neumann_integral(Self, kept)
    /\ (op = "__init__" \/ (op = "update_Dirichlet_boundary_conditions" /\ ret.exc = "None")) =>
          LET info == IF op = "__init__" THEN ctor.dirichlet_bc_info ELSE arg
          IN  \A i \in 1..Len(info[1]) :
                  (\A n \in 0..(Len0(points) - 1) : ~location_fn(info[1][i], points[n]))
                    => /\ Len(node_inds_list[i]) = 0 /\ Len(vec_inds_list[i]) = 0
                       /\ Len(vals_list[i]) = 0
    /\ op \in {"__init__", "compute_residual"} => ret.exc = "None"

\* a residual was returned by a model constructed with a Neumann entry that
\* selects a face and one that selects none, a non-zero Neumann integral, and a
\* Dirichlet entry that selects no node
C10_Witness ==
    /\ op = "compute_residual" /\ ret.exc = "None"
    /\ ctor.neumann_bc_info # "None"
    /\ Len(SelectingEntries(ctor.neumann_bc_info, Len(ctor.neumann_bc_info[1]))[1]) = 1
    /\ Len(ctor.neumann_bc_info[1]) = 2
    /\ \E n \in 0..(Len0(points) - 1) : neumann[n] # ZeroVec(vec)
    /\ \E i \in 1..Len(node_inds_list) : Len(node_inds_list[i]) = 0
    /\ \E n \in 0..(Len0(points) - 1) : ret.val[n] # ZeroVec(vec)

(* ------------------------- malformed specifications -------------------- *)

\* the three lists of a Dirichlet specification are not of one length
Mismatched(info) == ~(Len(info[1]) = Len(info[3]) /\ Len(info[3]) = Len(info[2]))

\* C11: a Dirichlet specification whose three lists are not of one length is
\* rejected with an AssertionError, by the constructor (which then yields no
\* object) and by update_Dirichlet_boundary_conditions, and the rejection comes
\* before any entry is resolved: a location function that would raise is not
\* applied.
C11_MismatchRejected ==
    /\ (op = "__init__" /\ Mismatched(ctor.dirichlet_bc_info))
          => /\ ret.exc = "AssertionError"
             /\ ~Constructed
             /\ << node_inds_list, vec_inds_list, vals_list >> = << <<>>, <<>>, <<>> >>
    /\ (op = "update_Dirichlet_boundary_conditions" /\ Mismatched(arg))
          => ret.exc = "AssertionError"

\* an update was given lists of unequal lengths whose first location function
\* raises when applied, on an object whose construction had succeeded
C11_Witness ==
    /\ op = "update_Dirichlet_boundary_conditions"
    /\ Mismatched(arg) /\ location_fn_raises(arg[1][1])
    /\ ret.exc = "AssertionError"
    /\ Constructed /\ Len(node_inds_list) = 2

(* ----------------------------- inverted elements ----------------------- *)

\* jacobian_det of get_shape_grads is not positive at a quadrature point of a cell
NonPositiveJacobian(mesh) ==
    \E c \in DOMAIN mesh.cells : \E q \in 0..(num_quads - 1) :
        Det3(Jacobian(mesh, c, shape_grads_reference[q])) <= 0

\* C12: on a mesh with a non-positive Jacobian determinant at a quadrature point
\* the constructor fails with an error and yields no object, so that no state
\* holds shape gradients or JxW derived from that Jacobian and no residual is
\* assembled on it.
C12_InvertedMeshRejected ==
    NonPositiveJacobian(ctor.mesh) => (~Constructed /\ ret.exc # "None")

(* --------------------------- malformed solutions ----------------------- *)

\* sol is a (num_total_nodes, vec) array
WellShaped(sol) ==
    /\ Len0(sol) = Len0(points)
    /\ \A n \in DOMAIN sol : Len(sol[n]) = vec

\* C13: compute_residual and update_stress_strain called with a solution that is
\* not a (num_total_nodes, vec) array end in an error instead of returning.
C13_MalformedSolutionRejected ==
    (op \in {"compute_residual", "update_stress_strain"} /\ ~WellShaped(arg))
        => ret.exc # "None"

(* ------------------------------ zero round trip ------------------------ *)

\* C14: for LinearPoisson (the identity physics of Laplace.compute_physics) built
\* without a source and without a Neumann specification, the residual of the
\* all-zero solution is the all-zero (num_total_nodes, vec) array, on each mesh
\* and whatever Dirichlet data the object holds.
C14_ZeroResidualOfZero ==
    ( /\ op = "compute_residual" /\ name = "LinearPoisson"
      /\ ctor.source_info = "None" /\ ctor.neumann_bc_info = "None"
      /\ arg = zeros(Len0(points), vec) )
        => ret = Return(zeros(Len0(points), vec))

\* the residual of the zero solution was evaluated on the two-cell mesh for a
\* LinearPoisson model without loads, after its Dirichlet data were replaced
C14_Witness ==
    /\ op = "compute_residual" /\ name = "LinearPoisson"
    /\ ctor.source_info = "None" /\ ctor.neumann_bc_info = "None"
    /\ arg = zeros(Len0(points), vec)
    /\ Len0(cells) = 2 /\ Len0(ret.val) = 12 /\ Len(ret.val[0]) = 1
    /\ Len(node_inds_list) = 3

(* ------------------------------ post-processing ------------------------ *)

PostOps == {"surface_integral", "compute_traction", "compute_surface_area",
            "compute_avg_stress"}

\* C15: a step that is a call of surface_integral, compute_traction,
\* compute_surface_area or compute_avg_stress leaves the mesh, the precomputed
\* geometry, the resolved Dirichlet data, the body-force and Neumann vectors and
\* the plasticity history as they were, in every state in which it is taken.
C15_PostProcessingReadsOnly ==
    [][ op' \in PostOps
          => UNCHANGED << geometry, dirichlet, rhs_vectors, history, ctor, steps >> ]_vars

\* an average stress that is not zero was returned from a history that holds
\* stresses and strains, on an object whose Dirichlet data had been replaced
C15_Witness ==
    /\ op = "compute_avg_stress"
    /\ sigmas_old # ZeroHistory /\ epsilons_old # ZeroHistory
    /\ ret.val # ZeroMat(3)
    /\ Len(node_inds_list) = 3

(* ------------------------------- face tables --------------------------- *)

\* the axes along which the k-th face normal is not zero
NormalAxes(k) == {d \in 1..dim : face_normals[k][d] # 0}

\* the local nodes listed for face k
ListedNodes(k) == {get_face_inds[k][i] : i \in 1..Len(get_face_inds[k])}

\* C16: on every constructed object, for every face number k in 0..5 the k-th
\* normal is a signed unit vector s * e_d; the k-th row of get_face_inds lists, once each, the four reference nodes
\* whose coordinate d is s; the four quadrature points of face k have coordinate d
\* equal to s; the six faces are pairwise distinct and every one of the eight nodes
\* lies on exactly three of them.
C16_FaceTablesAgree ==
    Constructed =>
        /\ \A k \in 0..(num_faces - 1) :
              /\ Cardinality(NormalAxes(k)) = 1
              /\ \A d \in NormalAxes(k) :
                    /\ face_normals[k][d] \in {-1, 1}
                    /\ ListedNodes(k) = {n \in 0..(num_nodes - 1) :
                                            node_points[n][d] = face_normals[k][d]}
                    /\ Len(get_face_inds[k]) = 4 /\ Cardinality(ListedNodes(k)) = 4
                    /\ \A p \in 0..(num_face_quads - 1) :
                          face_quad_points[k][p][d] = face_normals[k][d] * RefScale
        /\ \A k, l \in 0..(num_faces - 1) :
              k # l => /\ face_normals[k] # face_normals[l]
                       /\ ListedNodes(k) # ListedNodes(l)
        /\ \A n \in 0..(num_nodes - 1) :
              Cardinality({k \in 0..(num_faces - 1) : n \in ListedNodes(k)}) = 3

\* the tables were used together: a face selection returned a face of a cell, and
\* the Neumann vector assembled at construction from that cell's faces is not zero
C16_Witness ==
    /\ op = "Neuman_boundary_conditions_inds"
    /\ \E i \in 1..Len(ret.val) : \E j \in 1..Len(ret.val[i]) :
          \A n \in ListedNodes(ret.val[i][j][2]) : \A d \in NormalAxes(ret.val[i][j][2]) :
              points[cells[ret.val[i][j][1]][n]][d]
                  = points[cells[ret.val[i][j][1]][get_face_inds[ret.val[i][j][2]][1]]][d]
    /\ \E n \in DOMAIN neumann : neumann[n] # ZeroVec(vec)

(* --------------------------- history and threads ----------------------- *)

\* the object with the history pair of the last completed update_stress_strain
SelfCommitted == [Self EXCEPT !.sigmas_old = committed[1], !.epsilons_old = committed[2]]

\* C17: with compute_physics and compute_residual entered only while no
\* update_stress_strain is in flight, the pair (sigmas_old, epsilons_old) a
\* compute_physics evaluation reads is the pair assigned by the last completed
\* update_stress_strain call, or the zero pair of construction when there was none,
\* and the stresses it returns are those of that pair.
C17_ReadsOneCommit ==
    [][ op' \in {"compute_physics", "compute_residual"}
          => /\ << sigmas_old, epsilons_old >> = committed
             /\ steps = 0 => committed = << ZeroHistory, ZeroHistory >>
             /\ op' = "compute_physics"
                   => ret'.val = compute_physics(SelfCommitted, arg'[1], arg'[2]) ]_vars

\* compute_physics returned stresses that are not zero from a history two updates
\* committed, the stress and the strain of which are not zero
C17_Witness ==
    /\ op = "compute_physics"
    /\ steps = 2 /\ frame.line = 0
    /\ committed = << sigmas_old, epsilons_old >>
    /\ sigmas_old # ZeroHistory /\ epsilons_old # ZeroHistory
    /\ \E c \in DOMAIN ret.val : \E q \in DOMAIN ret.val[c] : ret.val[c][q] # ZeroMat(3)

(* ------------------------ all-or-nothing Dirichlet update -------------- *)

\* the specifications the driver passes that resolve without an error
Resolvable == {info \in DirichletUpdates : Dirichlet_boundary_conditions(Self, info).exc = "None"}

\* C18: a call of update_Dirichlet_boundary_conditions that raises leaves
\* node_inds_list, vec_inds_list and vals_list as they were; one that returns
\* leaves the three lists resolved from its argument; after either, the three
\* lists have one length and are the resolution of one specification.
C18_AllOrNothing ==
    [][ op' = "update_Dirichlet_boundary_conditions"
          => /\ ret'.exc # "None" => UNCHANGED << node_inds_list, vec_inds_list, vals_list >>
             /\ ret'.exc = "None" => DirichletResolved(arg', StoredDirichlet')
             /\ Len(node_inds_list') = Len(vec_inds_list')
             /\ Len(vec_inds_list') = Len(vals_list')
             /\ \E info \in Resolvable : DirichletResolved(info, StoredDirichlet') ]_vars

\* an update failed inside the resolution, on a specification whose lists have
\* equal lengths, and the object still holds the three entries of the update
\* before it
C18_Witness ==
    /\ op = "update_Dirichlet_boundary_conditions"
    /\ ret.exc = "ValueError" /\ ~Mismatched(arg)
    /\ Constructed /\ Len(node_inds_list) = 3
    /\ DirichletResolved(DirichletOverlap, StoredDirichlet)
    /\ ~DirichletResolved(ctor.dirichlet_bc_info, StoredDirichlet)

(* ------------------------------ average stress ------------------------- *)

\* the two attributes compute_avg_stress reads
HistoryAndWeights == [sigmas_old |-> sigmas_old, JxW |-> JxW]

\* C19: compute_avg_stress returns the JxW-weighted mean of sigmas_old, a function
\* of the stored history and the weights alone: the zero tensor before the first
\* update_stress_strain, the value of the call before it when the two calls are
\* adjacent, and a value that no compute_residual or compute_physics evaluation
\* changes, whatever trial solution it is given.
C19_AvgStressOfHistory ==
    [][ name = "Plasticity"
          => /\ op' = "compute_avg_stress"
                   => /\ ret'.val = compute_avg_stress(HistoryAndWeights)
                      /\ steps = 0 => ret'.val = ZeroMat(3)
                      /\ op = "compute_avg_stress" => ret'.val = ret.val
             /\ op' \in {"compute_residual", "compute_physics"}
                   => /\ HistoryAndWeights' = HistoryAndWeights
                      /\ compute_avg_stress(HistoryAndWeights')
                             = compute_avg_stress(HistoryAndWeights) ]_vars

\* between the first update_stress_strain and the next, a residual that is not zero
\* was evaluated for a trial solution while the average stress is not zero
C19_Witness ==
    /\ name = "Plasticity" /\ op = "compute_residual"
    /\ steps = 1
    /\ compute_avg_stress(HistoryAndWeights) # ZeroMat(3)
    /\ \E n \in DOMAIN ret.val : ret.val[n] # ZeroVec(vec)
====
